---- MODULE Spec2Model ----
(***************************************************************************)
(* twterminator: two pipelines (Tweet, Like), each a loadTweets goroutine  *)
(* feeding a removeTweets goroutine through an unbuffered channel, and a   *)
(* main goroutine waiting on the package-level sync.WaitGroup "latch".     *)
(* Line numbers refer to src/unnamed/part_000 (the two-window version of   *)
(* src/twterminator.go).                                                   *)
(***************************************************************************)
EXTENDS Integers, Sequences, FiniteSets, TLC

\* ------------------------------------------------------------------ bounds
\* Identifiers of the remote items are 1..MaxID.
MaxID == 2
\* The remote service hands out at most MaxItems items in total (over all
\* pages of both listings); afterwards a listing call fails or is empty.
MaxItems == 2

\* --------------------------------------------------------------- constants
maxErrorCount == 3

Tweet == "Tweet"
Like == "Like"
Cat == {Tweet, Like}
Other(c) == IF c = Tweet THEN Like ELSE Tweet

\* ------------------------------------------------------------------- time
\* Instants are whole days; time.Time's zero value (year 1) is day 0.
ZeroTime == 0
\* time.Now() of the run.
Now == 10
\* CreatedAt strings the remote service uses: two well-formed instants and
\* one string that does not match the layout.
Stamps == {"d7", "d8", "garbage"}

\* time.Parse(layout, s): the instant, or the zero value with an error.
\* <<instant, ok>>
ParseTime(s) ==
    CASE s = "d7" -> <<7, TRUE>>
      [] s = "d8" -> <<8, TRUE>>
      [] OTHER    -> <<ZeroTime, FALSE>>

\* The remote item with identifier i (its CreatedAt never changes).
CreatedAtOf(i) ==
    CASE i % 3 = 1 -> "d7"
      [] i % 3 = 2 -> "garbage"
      [] OTHER     -> "d8"

MkTweet(i) == [Id |-> i, CreatedAt |-> CreatedAtOf(i)]
Ids == 1..MaxID
Tweets == {MkTweet(i) : i \in Ids}
NoTweet == [Id |-> 0, CreatedAt |-> ""]
\* url.Values without a "max_id" key (line 132)
Unset == [set |-> FALSE, val |-> 0]

\* Pages a listing call may return: non-empty, no identifier twice, any order.
RECURSIVE SeqsUpTo(_, _)
SeqsUpTo(S, n) ==
    IF n = 0 THEN {<<>>}
    ELSE LET shorter == SeqsUpTo(S, n - 1)
         IN  shorter \cup {Append(s, x) : s \in {t \in shorter : Len(t) = n - 1}, x \in S}

Distinct(s) == \A i, j \in 1..Len(s) : i # j => s[i].Id # s[j].Id
Pages == {p \in SeqsUpTo(Tweets, MaxItems) : Len(p) > 0 /\ Distinct(p)}

\* ------------------------------------------------------------------ flags
\* <<-b, -l>> command lines of the runs explored; the configuration file
\* has BacklogDays = 1 and no BacklogDaysLikes.  Posts older than 2 days and
\* likes older than 3 days go.
FlagSets == {<<2, 3>>}
CfgBacklogDays == {1}
CfgBacklogDaysLikes == {0}

\* Command lines and configuration files for the computation of the two
\* windows alone: flag.Int and the YAML integers take any sign.
BacklogFlags == -1..3
LikemaxFlags == -1..3
BacklogDaysValues == -1..2
BacklogDaysLikesValues == -1..2

\* main, lines 231-234
MaxDays(cfgDays, b) == IF b > 0 THEN b ELSE cfgDays

\* lines 235-241 without the fallback of lines 239-241
MaxDaysLikesNoFallback(cfgLikes, l, maxDays) ==
    IF l > 0 THEN l ELSE cfgLikes

\* main, lines 235-241
MaxDaysLikes(cfgLikes, l, maxDays) ==
    LET d == IF l > 0 THEN l ELSE cfgLikes
    IN  IF d = 0 THEN maxDays ELSE d

\* main, lines 243-246
Cutoff(days) == Now - days

VARIABLES
    xoxo,        \* flag -x
    backlog,     \* flag -b
    likemax,     \* flag -l
    cfg,         \* cfg.Filter: [BacklogDays, BacklogDaysLikes]
    maxDate,     \* [Cat -> instant]: filter.MaxDate / filter.MaxDateLikes
    latch,       \* counter of the WaitGroup
    mainpc,      \* main: "Filter", "Spawn", "Wait", "Woken", "Returned", "Panicked",
                 \*       "Exited", "Crashed"
    lpc,         \* loadTweets: "fetch", "range", "send", "close", "done", "finished"
    errorCount,  \* loadTweets local
    minID,       \* loadTweets local
    maxId,       \* params["max_id"]: whether it is set, and the number printed into it
    tweets,      \* page being ranged over
    idx,         \* position in tweets
    closed,      \* the channel is closed
    closes,      \* number of close(stream) executed
    cpc,         \* removeTweets: "start", "recv", "process", "done", "finished"
    cur,         \* removeTweets loop variable
    \* history
    passing,     \* items of the pages fetched so far that pass the filter, in page order
    received,    \* items removeTweets has received
    logged,      \* items whose processing is complete
    calls,       \* destructive API calls made: <<operation, id>>
    delErr,      \* the last destructive call of the category failed
    consecErrs,  \* loader calls that failed in a row, up to the latest call
    lastCall,    \* [kind, max_id] of the latest loader call
    minSeen,     \* least identifier in any page fetched so far (0: none)
    prevCursor,  \* params["max_id"] as it was before it was last set
    served       \* items the remote service has handed out

lvars == <<lpc, errorCount, minID, maxId, tweets, idx, closed, closes>>
cvars == <<cpc, cur>>
hvars == <<passing, received, logged, calls, delErr, consecErrs, lastCall, minSeen,
           prevCursor, served>>
inputs == <<xoxo, backlog, likemax, cfg>>
vars == <<inputs, maxDate, latch, mainpc, lvars, cvars, hvars>>

\* The process is running: once main has returned (or a panic has unwound
\* it) the runtime exits and no goroutine takes another step.
Alive == mainpc \notin {"Exited", "Crashed"}

\* ------------------------------------------------------------ allowTweet
\* allowTweet with !dt.After(maxDate) in place of dt.Before(maxDate)
AllowTweetNotAfter(tweet, md) ==
    LET dt == ParseTime(tweet.CreatedAt)[1]
    IN  dt <= md

\* lines 120-126
AllowTweet(tweet, md) ==
    LET dt == ParseTime(tweet.CreatedAt)[1]
    IN  dt < md

\* ------------------------------------------------------------------- Init
\* No goroutine has run: the locals of loadTweets and removeTweets as they
\* are on entry, the channels open and empty, nothing fetched or processed.
NotStarted ==
    /\ lpc = [c \in Cat |-> "fetch"]
    /\ errorCount = [c \in Cat |-> 0]
    /\ minID = [c \in Cat |-> 0]
    /\ maxId = [c \in Cat |-> Unset]
    /\ tweets = [c \in Cat |-> <<>>]
    /\ idx = [c \in Cat |-> 0]
    /\ closed = [c \in Cat |-> FALSE]
    /\ closes = [c \in Cat |-> 0]
    /\ cpc = [c \in Cat |-> "start"]
    /\ cur = [c \in Cat |-> NoTweet]
    /\ passing = [c \in Cat |-> <<>>]
    /\ received = [c \in Cat |-> <<>>]
    /\ logged = [c \in Cat |-> <<>>]
    /\ calls = [c \in Cat |-> <<>>]
    /\ delErr = [c \in Cat |-> FALSE]
    /\ consecErrs = [c \in Cat |-> 0]
    /\ lastCall = [c \in Cat |-> [kind |-> "none", max_id |-> Unset]]
    /\ minSeen = [c \in Cat |-> 0]
    /\ prevCursor = [c \in Cat |-> Unset]
    /\ served = 0

\* lines 243-246: the filter built from the two numbers of days
FilterOf(days, daysLikes) ==
    [c \in Cat |-> IF c = Tweet THEN Cutoff(days) ELSE Cutoff(daysLikes)]

\* State at line 262: flags parsed, filter computed, latch.Add(2) done, the
\* four goroutines created and none of them has run yet.
Init ==
    /\ xoxo \in BOOLEAN
    /\ \E f \in FlagSets, cd \in CfgBacklogDays, cl \in CfgBacklogDaysLikes :
         LET days == MaxDays(cd, f[1])
             daysLikes == MaxDaysLikes(cl, f[2], days)
         IN  /\ backlog = f[1]
             /\ likemax = f[2]
             /\ cfg = [BacklogDays |-> cd, BacklogDaysLikes |-> cl]
             /\ maxDate = FilterOf(days, daysLikes)
    /\ latch = 2
    /\ mainpc = "Wait"
    /\ NotStarted

\* State at line 230: flags parsed and configuration loaded, the filter not
\* yet built (a zero TweetFilter), the latch untouched.
InitDays ==
    /\ xoxo \in BOOLEAN
    /\ backlog \in BacklogFlags
    /\ likemax \in LikemaxFlags
    /\ cfg \in [BacklogDays : BacklogDaysValues, BacklogDaysLikes : BacklogDaysLikesValues]
    /\ maxDate = [c \in Cat |-> ZeroTime]
    /\ latch = 0
    /\ mainpc = "Filter"
    /\ NotStarted

\* ============================================================ loadTweets
\* the break with > in place of >=
ErrorBreakLate(n) == n > maxErrorCount

\* lines 144-146: the break on the failure threshold
ErrorBreak(n) == n >= maxErrorCount

\* lines 161-163: the running minimum identifier (0 doubles as "not set")
NewMinID(m, id) == IF m = 0 \/ id < m THEN id ELSE m

Min(a, b) == IF a < b THEN a ELSE b
TrueMin(m, id) == IF m = 0 THEN id ELSE Min(m, id)
RECURSIVE MinOfPage(_, _)
MinOfPage(p, m) == IF p = <<>> THEN m ELSE MinOfPage(Tail(p), TrueMin(m, Head(p).Id))

\* LoadError with errorCount a package-level variable shared by both
\* loadTweets goroutines
LoadErrorShared(c) ==
    /\ Alive
    /\ lpc[c] = "fetch"
    /\ errorCount' = [d \in Cat |-> errorCount[d] + 1]
    /\ lpc' = [lpc EXCEPT ![c] = IF ErrorBreak(errorCount'[c]) THEN "close" ELSE "fetch"]
    /\ consecErrs' = [consecErrs EXCEPT ![c] = @ + 1]
    /\ lastCall' = [lastCall EXCEPT ![c] = [kind |-> "err", max_id |-> maxId[c]]]
    /\ UNCHANGED <<inputs, maxDate, latch, mainpc, minID, maxId, tweets, idx, closed, closes,
                   cvars, passing, received, logged, calls, delErr, minSeen, prevCursor,
                   served>>

\* LoadError that starts over from the newest page after a failure:
\* params.Del("max_id") and minID = 0 before the continue
LoadErrorResetCursor(c) ==
    /\ Alive
    /\ lpc[c] = "fetch"
    /\ errorCount' = [errorCount EXCEPT ![c] = @ + 1]
    /\ lpc' = [lpc EXCEPT ![c] = IF ErrorBreak(errorCount'[c]) THEN "close" ELSE "fetch"]
    /\ maxId' = [maxId EXCEPT ![c] = Unset]
    /\ minID' = [minID EXCEPT ![c] = 0]
    /\ consecErrs' = [consecErrs EXCEPT ![c] = @ + 1]
    /\ lastCall' = [lastCall EXCEPT ![c] = [kind |-> "err", max_id |-> maxId[c]]]
    /\ UNCHANGED <<inputs, maxDate, latch, mainpc, tweets, idx, closed, closes,
                   cvars, passing, received, logged, calls, delErr, minSeen, prevCursor,
                   served>>

\* lines 139-148: loader(params) returns an error
LoadError(c) ==
    /\ Alive
    /\ lpc[c] = "fetch"
    /\ errorCount' = [errorCount EXCEPT ![c] = @ + 1]
    /\ lpc' = [lpc EXCEPT ![c] = IF ErrorBreak(errorCount'[c]) THEN "close" ELSE "fetch"]
    /\ consecErrs' = [consecErrs EXCEPT ![c] = @ + 1]
    /\ lastCall' = [lastCall EXCEPT ![c] = [kind |-> "err", max_id |-> maxId[c]]]
    /\ UNCHANGED <<inputs, maxDate, latch, mainpc, minID, maxId, tweets, idx, closed, closes,
                   cvars, passing, received, logged, calls, delErr, minSeen, prevCursor,
                   served>>

\* LoadEmpty with the empty-page test placed after a test of errorCount:
\* an empty page that follows a failure is taken for another failure to retry
LoadEmptyRetry(c) ==
    /\ Alive
    /\ lpc[c] = "fetch"
    /\ lpc' = [lpc EXCEPT ![c] = IF errorCount[c] > 0 THEN "fetch" ELSE "close"]
    /\ consecErrs' = [consecErrs EXCEPT ![c] = 0]
    /\ lastCall' = [lastCall EXCEPT ![c] = [kind |-> "empty", max_id |-> maxId[c]]]
    /\ UNCHANGED <<inputs, maxDate, latch, mainpc, errorCount, minID, maxId, tweets, idx,
                   closed, closes, cvars, passing, received, logged, calls, delErr,
                   minSeen, prevCursor, served>>

\* lines 139, 154-156: loader(params) returns no item
LoadEmpty(c) ==
    /\ Alive
    /\ lpc[c] = "fetch"
    /\ lpc' = [lpc EXCEPT ![c] = "close"]
    /\ consecErrs' = [consecErrs EXCEPT ![c] = 0]
    /\ lastCall' = [lastCall EXCEPT ![c] = [kind |-> "empty", max_id |-> maxId[c]]]
    /\ UNCHANGED <<inputs, maxDate, latch, mainpc, errorCount, minID, maxId, tweets, idx,
                   closed, closes, cvars, passing, received, logged, calls, delErr,
                   minSeen, prevCursor, served>>

\* Scan with the range starting at the second item of a page
RECURSIVE ScanFromSecond(_, _, _, _)
ScanFromSecond(p, i, m, md) ==
    IF i > Len(p)
    THEN [idx |-> i, minID |-> m]
    ELSE LET m2 == NewMinID(m, p[i].Id)
         IN  IF AllowTweet(p[i], md) /\ ~(i = 1 /\ Len(p) > 1)
             THEN [idx |-> i, minID |-> m2]
             ELSE ScanFromSecond(p, i + 1, m2, md)

\* lines 160-167: the range loop from position i on, up to the first item
\* that is sent (the send blocks) or to the end of the page.
RECURSIVE Scan(_, _, _, _)
Scan(p, i, m, md) ==
    IF i > Len(p)
    THEN [idx |-> i, minID |-> m]
    ELSE LET m2 == NewMinID(m, p[i].Id)
         IN  IF AllowTweet(p[i], md)
             THEN [idx |-> i, minID |-> m2]
             ELSE Scan(p, i + 1, m2, md)

\* lines 160-170: loadTweets runs on through page p from position i until it
\* blocks in the send of line 165 or, the page done, has set the cursor
\* (minID--, params.Set("max_id", ...)) and is back at the loader call.
\* The page is dead after the loop and is dropped.
RunPage(c, p, i) ==
    LET r == Scan(p, i, minID[c], maxDate[c])
    IN  IF r.idx <= Len(p)
        THEN /\ lpc' = [lpc EXCEPT ![c] = "send"]
             /\ tweets' = [tweets EXCEPT ![c] = p]
             /\ idx' = [idx EXCEPT ![c] = r.idx]
             /\ minID' = [minID EXCEPT ![c] = r.minID]
             /\ maxId' = maxId
             /\ prevCursor' = prevCursor
        ELSE /\ lpc' = [lpc EXCEPT ![c] = "fetch"]
             /\ tweets' = [tweets EXCEPT ![c] = <<>>]
             /\ idx' = [idx EXCEPT ![c] = 0]
             /\ minID' = [minID EXCEPT ![c] = r.minID - 1]
             /\ maxId' = [maxId EXCEPT ![c] = [set |-> TRUE, val |-> r.minID - 1]]
             /\ prevCursor' = [prevCursor EXCEPT ![c] = maxId[c]]

\* LoadPage without errorCount = 0 (line 158)
LoadPageNoReset(c, p) ==
    /\ Alive
    /\ lpc[c] = "fetch"
    /\ Len(p) <= MaxItems - served
    /\ served' = served + Len(p)
    /\ errorCount' = errorCount
    /\ RunPage(c, p, 1)
    /\ consecErrs' = [consecErrs EXCEPT ![c] = 0]
    /\ lastCall' = [lastCall EXCEPT ![c] = [kind |-> "page", max_id |-> maxId[c]]]
    /\ minSeen' = [minSeen EXCEPT ![c] = MinOfPage(p, @)]
    /\ passing' = [passing EXCEPT ![c] =
                     @ \o SelectSeq(p, LAMBDA t : ParseTime(t.CreatedAt)[1] < maxDate[c])]
    /\ UNCHANGED <<inputs, maxDate, latch, mainpc, closed, closes, cvars,
                   received, logged, calls, delErr>>

\* lines 139, 158-170: loader(params) returns the non-empty page p
LoadPage(c, p) ==
    /\ Alive
    /\ lpc[c] = "fetch"
    /\ Len(p) <= MaxItems - served
    /\ served' = served + Len(p)
    /\ errorCount' = [errorCount EXCEPT ![c] = 0]
    /\ RunPage(c, p, 1)
    /\ consecErrs' = [consecErrs EXCEPT ![c] = 0]
    /\ lastCall' = [lastCall EXCEPT ![c] = [kind |-> "page", max_id |-> maxId[c]]]
    /\ minSeen' = [minSeen EXCEPT ![c] = MinOfPage(p, @)]
    /\ passing' = [passing EXCEPT ![c] =
                     @ \o SelectSeq(p, LAMBDA t : ParseTime(t.CreatedAt)[1] < maxDate[c])]
    /\ UNCHANGED <<inputs, maxDate, latch, mainpc, closed, closes, cvars,
                   received, logged, calls, delErr>>

\* LoadClose with the close placed inside the empty-page branch only
LoadCloseOnEmptyOnly(c) ==
    /\ Alive
    /\ lpc[c] = "close"
    /\ closed' = [closed EXCEPT ![c] = (lastCall[c].kind = "empty")]
    /\ closes' = [closes EXCEPT ![c] = IF lastCall[c].kind = "empty" THEN @ + 1 ELSE @]
    /\ lpc' = [lpc EXCEPT ![c] = "done"]
    /\ UNCHANGED <<inputs, maxDate, latch, mainpc, errorCount, minID, maxId, tweets, idx,
                   cvars, hvars>>

\* line 174: close(stream)
LoadClose(c) ==
    /\ Alive
    /\ lpc[c] = "close"
    /\ closed' = [closed EXCEPT ![c] = TRUE]
    /\ closes' = [closes EXCEPT ![c] = @ + 1]
    /\ lpc' = [lpc EXCEPT ![c] = "done"]
    /\ UNCHANGED <<inputs, maxDate, latch, mainpc, errorCount, minID, maxId, tweets, idx,
                   cvars, hvars>>

\* line 180: latch.Done()
LoadDone(c) ==
    /\ Alive
    /\ lpc[c] = "done"
    /\ latch' = latch - 1
    /\ lpc' = [lpc EXCEPT ![c] = "finished"]
    /\ UNCHANGED <<inputs, maxDate, mainpc, errorCount, minID, maxId, tweets, idx, closed,
                   closes, cvars, hvars>>

\* ========================================================== removeTweets
\* RemoveStart without latch.Add(1)
RemoveStartNoAdd(c) ==
    /\ Alive
    /\ cpc[c] = "start"
    /\ latch' = latch
    /\ cpc' = [cpc EXCEPT ![c] = "recv"]
    /\ UNCHANGED <<inputs, maxDate, mainpc, lvars, cur, hvars>>

\* line 186: latch.Add(1), the goroutine's first statement
RemoveStart(c) ==
    /\ Alive
    /\ cpc[c] = "start"
    /\ latch' = latch + 1
    /\ cpc' = [cpc EXCEPT ![c] = "recv"]
    /\ UNCHANGED <<inputs, maxDate, mainpc, lvars, cur, hvars>>

\* Handoff on a channel made with a buffer (make(chan anaconda.Tweet, 1)):
\* the send completes while removeTweets is still busy with an item
HandoffBuffered(c) ==
    /\ Alive
    /\ lpc[c] = "send"
    /\ cpc[c] \in {"recv", "process"}
    /\ ~closed[c]
    /\ cur' = [cur EXCEPT ![c] = tweets[c][idx[c]]]
    /\ received' = [received EXCEPT ![c] = Append(@, tweets[c][idx[c]])]
    /\ cpc' = [cpc EXCEPT ![c] = "process"]
    /\ RunPage(c, tweets[c], idx[c] + 1)
    /\ UNCHANGED <<inputs, maxDate, latch, mainpc, errorCount, closed,
                   closes, passing, logged, calls, delErr, consecErrs, lastCall, minSeen,
                   served>>

\* lines 165 and 188: the rendezvous on the unbuffered channel: the send
\* completes, the range receives, and loadTweets runs on (lines 160-170).
Handoff(c) ==
    /\ Alive
    /\ lpc[c] = "send"
    /\ cpc[c] = "recv"
    /\ ~closed[c]
    /\ cur' = [cur EXCEPT ![c] = tweets[c][idx[c]]]
    /\ received' = [received EXCEPT ![c] = Append(@, tweets[c][idx[c]])]
    /\ cpc' = [cpc EXCEPT ![c] = "process"]
    /\ RunPage(c, tweets[c], idx[c] + 1)
    /\ UNCHANGED <<inputs, maxDate, latch, mainpc, errorCount, closed,
                   closes, passing, logged, calls, delErr, consecErrs, lastCall, minSeen,
                   served>>

\* Destructive without the tests of *xoxo
DestructiveAlways(tweetType, id, commit) ==
    IF tweetType = Tweet
    THEN << <<"DeleteTweet", id>> >>
    ELSE IF tweetType = Like THEN << <<"Unfavorite", id>> >> ELSE <<>>

\* lines 191-207: the destructive calls made for one item
Destructive(tweetType, id, commit) ==
    IF tweetType = Tweet
    THEN IF commit THEN << <<"DeleteTweet", id>> >> ELSE <<>>
    ELSE IF tweetType = Like
         THEN IF commit THEN << <<"Unfavorite", id>> >> ELSE <<>>
         ELSE <<>>

\* RemoveProcess with a return at the end of the loop body
RemoveProcessOnce(c, failed) ==
    /\ Alive
    /\ cpc[c] = "process"
    /\ LET made == Destructive(c, cur[c].Id, xoxo)
       IN  /\ calls' = [calls EXCEPT ![c] = @ \o made]
           /\ IF made = <<>> THEN failed = FALSE ELSE TRUE
           /\ delErr' = [delErr EXCEPT ![c] = failed]
    /\ logged' = [logged EXCEPT ![c] = Append(@, cur[c])]
    /\ cur' = [cur EXCEPT ![c] = NoTweet]
    /\ cpc' = [cpc EXCEPT ![c] = "done"]
    /\ UNCHANGED <<inputs, maxDate, latch, mainpc, lvars, passing, received, consecErrs,
                   lastCall, minSeen, prevCursor, served>>

\* RemoveProcess with a return after the error message of lines 195 / 202
RemoveProcessAbort(c, failed) ==
    /\ Alive
    /\ cpc[c] = "process"
    /\ LET made == Destructive(c, cur[c].Id, xoxo)
       IN  /\ calls' = [calls EXCEPT ![c] = @ \o made]
           /\ IF made = <<>> THEN failed = FALSE ELSE TRUE
           /\ delErr' = [delErr EXCEPT ![c] = failed]
    /\ logged' = [logged EXCEPT ![c] = Append(@, cur[c])]
    /\ cur' = [cur EXCEPT ![c] = NoTweet]
    /\ cpc' = [cpc EXCEPT ![c] = IF failed THEN "done" ELSE "recv"]
    /\ UNCHANGED <<inputs, maxDate, latch, mainpc, lvars, passing, received, consecErrs,
                   lastCall, minSeen, prevCursor, served>>

\* lines 189-207: the body of the range loop; failed says whether the
\* destructive call (if one is made) returns an error.
RemoveProcess(c, failed) ==
    /\ Alive
    /\ cpc[c] = "process"
    /\ LET made == Destructive(c, cur[c].Id, xoxo)
       IN  /\ calls' = [calls EXCEPT ![c] = @ \o made]
           /\ IF made = <<>> THEN failed = FALSE ELSE TRUE
           /\ delErr' = [delErr EXCEPT ![c] = failed]
    /\ logged' = [logged EXCEPT ![c] = Append(@, cur[c])]
    /\ cur' = [cur EXCEPT ![c] = NoTweet]
    /\ cpc' = [cpc EXCEPT ![c] = "recv"]
    /\ UNCHANGED <<inputs, maxDate, latch, mainpc, lvars, passing, received, consecErrs,
                   lastCall, minSeen, prevCursor, served>>

\* line 188: the range ends on the closed channel
RemoveRangeEnd(c) ==
    /\ Alive
    /\ cpc[c] = "recv"
    /\ closed[c]
    /\ cpc' = [cpc EXCEPT ![c] = "done"]
    /\ UNCHANGED <<inputs, maxDate, latch, mainpc, lvars, cur, hvars>>

\* line 214: latch.Done()
RemoveDone(c) ==
    /\ Alive
    /\ cpc[c] = "done"
    /\ latch' = latch - 1
    /\ cpc' = [cpc EXCEPT ![c] = "finished"]
    /\ UNCHANGED <<inputs, maxDate, mainpc, lvars, cur, hvars>>

\* ================================================================== main
\* line 262, latch.Wait(): the counter is seen at zero (either by Wait's own
\* load or by the Done that released the waiter).
MainWake ==
    /\ mainpc = "Wait"
    /\ latch = 0
    /\ mainpc' = "Woken"
    /\ UNCHANGED <<inputs, maxDate, latch, lvars, cvars, hvars>>

\* line 262: Wait returns.  A released waiter loads the state once more and
\* panics ("WaitGroup is reused before previous Wait has returned") when an
\* Add has raised the counter in between; a Wait that loaded zero itself
\* returns without a second look.
MainReturn ==
    /\ mainpc = "Woken"
    /\ \/ mainpc' = "Returned"
       \/ latch # 0 /\ mainpc' = "Panicked"
    /\ UNCHANGED <<inputs, maxDate, latch, lvars, cvars, hvars>>

\* line 264: main returns (or the panic unwinds it) and the process exits.
MainExit ==
    /\ mainpc \in {"Returned", "Panicked"}
    /\ mainpc' = IF mainpc = "Returned" THEN "Exited" ELSE "Crashed"
    /\ UNCHANGED <<inputs, maxDate, latch, lvars, cvars, hvars>>

\* lines 231-246: the two numbers of days and the filter
MainFilter ==
    /\ mainpc = "Filter"
    /\ LET maxDays == MaxDays(cfg.BacklogDays, backlog)
           maxDaysLikes == MaxDaysLikes(cfg.BacklogDaysLikes, likemax, maxDays)
       IN  maxDate' = FilterOf(maxDays, maxDaysLikes)
    /\ mainpc' = "Spawn"
    /\ UNCHANGED <<inputs, latch, lvars, cvars, hvars>>

\* lines 254-261: the channels, latch.Add(2) and the four go statements
MainSpawn ==
    /\ mainpc = "Spawn"
    /\ latch' = latch + 2
    /\ mainpc' = "Wait"
    /\ UNCHANGED <<inputs, maxDate, lvars, cvars, hvars>>

\* ================================================================== Next
Loader(c) ==
    \/ LoadError(c)
    \/ LoadEmpty(c)
    \/ \E p \in Pages : LoadPage(c, p)
    \/ LoadClose(c)
    \/ LoadDone(c)

Remover(c) ==
    \/ RemoveStart(c)
    \/ Handoff(c)
    \/ \E failed \in BOOLEAN : RemoveProcess(c, failed)
    \/ RemoveRangeEnd(c)
    \/ RemoveDone(c)

Main == MainWake \/ MainReturn \/ MainExit

Next == (\E c \in Cat : Loader(c) \/ Remover(c)) \/ Main

Spec == Init /\ [][Next]_vars

\* Go schedules every runnable goroutine eventually.
Fairness ==
    /\ \A c \in Cat : WF_vars(Loader(c)) /\ WF_vars(Remover(c))
    /\ WF_vars(Main)

FairSpec == Spec /\ Fairness

\* main up to line 262, over every command line and configuration
NextDays == MainFilter \/ MainSpawn

SpecDays == InitDays /\ [][NextDays]_vars

TypeOK ==
    /\ latch \in 0..4
    /\ \A c \in Cat : errorCount[c] \in 0..maxErrorCount

\* ================================================================ claims
IsPrefix(s, t) == Len(s) <= Len(t) /\ SubSeq(t, 1, Len(s)) = s
IdsOf(q) == {q[i].Id : i \in 1..Len(q)}
LeftLoop(c) == lpc[c] \in {"close", "done", "finished"}
ProcessOver == mainpc \in {"Returned", "Panicked", "Exited", "Crashed"}

C2_DryRunNoDestructiveCall ==
    ~xoxo => \A c \in Cat : calls[c] = <<>>

\* a dry run has processed items of both categories
C2_Witness ==
    ~xoxo /\ \A c \in Cat : logged[c] # <<>>

\* C3: latch.Wait() never returns before both removeTweets workers have
\* signaled completion.
C3_WaitReturnsAfterConsumers ==
    mainpc = "Returned" => \A c \in Cat : cpc[c] = "finished"

\* C4: once both loadTweets have closed their streams, latch.Wait() eventually
\* returns.
C4_WaitEventuallyReturns ==
    (\A c \in Cat : closed[c]) ~> (mainpc \in {"Returned", "Exited"})

\* C5: the items received by removeTweets are at all times a prefix of the
\* fetched items that pass the filter, in page order, and all of them once
\* the pipeline has completed.
C5_ReceivedIsPassingInOrder ==
    \A c \in Cat :
        /\ IsPrefix(received[c], passing[c])
        /\ (LeftLoop(c) \/ cpc[c] \in {"done", "finished"}) => received[c] = passing[c]

\* a pipeline has completed after delivering two items of one page
C5_Witness ==
    \E c \in Cat :
        /\ cpc[c] = "finished"
        /\ lpc[c] = "finished"
        /\ Len(received[c]) >= 2

\* C6: after 3 loader errors in a row loadTweets makes no further loader
\* call and closes its stream, having emitted exactly the allowed items of
\* the pages fetched before.
C6_ThreeErrorsStop ==
    \A c \in Cat :
        /\ consecErrs[c] <= 3
        /\ consecErrs[c] = 3 =>
              /\ LeftLoop(c)
              /\ lpc[c] # "close" => closed[c]
              /\ received[c] = passing[c]

\* a loader failed three times in a row after a page with an allowed item,
\* and the stream is closed
C6_Witness ==
    \E c \in Cat : consecErrs[c] = 3 /\ closed[c] /\ received[c] # <<>>

\* C7: after an empty page loadTweets makes no further loader call and
\* closes its stream, with the failure counter at 0, 1 or 2.
C7_EmptyPageStops ==
    \A c \in Cat :
        lastCall[c].kind = "empty" =>
            /\ LeftLoop(c)
            /\ lpc[c] # "close" => closed[c]

\* empty pages arrived with the failure counter at 2 and at 1
C7_Witness ==
    /\ lastCall[Tweet].kind = "empty" /\ errorCount[Tweet] = 2 /\ closed[Tweet]
    /\ lastCall[Like].kind = "empty" /\ errorCount[Like] = 1 /\ closed[Like]

\* C8: every cursor (max_id) set after a page is strictly smaller than the
\* cursor it replaces, for every sequence of pages.
C8_CursorStrictlyDecreasing ==
    \A c \in Cat :
        prevCursor[c].set => maxId[c].val < prevCursor[c].val

\* C9: a stream is closed exactly once, by its loadTweets after the loop
\* (on the empty page and on the failure threshold alike) and before its
\* latch.Done(); no send is attempted on a closed stream.
C9_ClosedOnceAfterLoop ==
    \A c \in Cat :
        /\ closes[c] = IF lpc[c] \in {"done", "finished"} THEN 1 ELSE 0
        /\ closed[c] <=> closes[c] > 0
        /\ lpc[c] = "send" => ~closed[c]

\* one loadTweets has finished on an empty page and the other on the
\* failure threshold
C9_Witness ==
    /\ lpc[Tweet] = "finished" /\ lastCall[Tweet].kind = "empty"
    /\ lpc[Like] = "finished" /\ lastCall[Like].kind = "err"

\* C10: when one category's loader has failed 3 times in a row, the other
\* category's loadTweets leaves its loop only on its own empty page or its
\* own 3 failures, and its removeTweets receives and processes exactly the
\* allowed items of its own pages, in order.
C10_FailureIsolated ==
    \A c \in Cat :
        consecErrs[c] = 3 =>
            LET d == Other(c)
            IN  /\ LeftLoop(d) => lastCall[d].kind = "empty" \/ consecErrs[d] = 3
                /\ IsPrefix(received[d], passing[d])
                /\ LeftLoop(d) => received[d] = passing[d]
                /\ (cpc[d] \in {"done", "finished"} \/ ProcessOver) => logged[d] = passing[d]

\* the Like loader has failed 3 times and the Tweet pipeline has run to its
\* empty page and processed an item
C10_Witness ==
    /\ consecErrs[Like] = 3
    /\ lastCall[Tweet].kind = "empty"
    /\ cpc[Tweet] = "finished"
    /\ logged[Tweet] # <<>>
    /\ logged[Tweet] = passing[Tweet]

\* the destructive operation of a category (lines 193 and 200)
OpOf(c) == IF c = Tweet THEN "DeleteTweet" ELSE "Unfavorite"
Front(q) == SubSeq(q, 1, Len(q) - 1)

\* C11: with -x, every item removeTweets has processed got exactly one call
\* of its category's destructive operation, in order, whether or not earlier
\* calls failed; a failed call does not end the range: removeTweets leaves
\* it only on the closed stream, with every received item processed.
C11_OneCallPerItemWhateverFails ==
    xoxo =>
        \A c \in Cat :
            /\ calls[c] = [i \in 1..Len(logged[c]) |-> <<OpOf(c), logged[c][i].Id>>]
            /\ logged[c] = IF cpc[c] = "process" THEN Front(received[c]) ELSE received[c]
            /\ cpc[c] \in {"done", "finished"} => closed[c]

\* the destructive call for an item failed and removeTweets has received
\* the next item
C11_Witness ==
    \E c \in Cat :
        xoxo /\ delErr[c] /\ cpc[c] = "process" /\ Len(calls[c]) >= 1

\* C12: no item whose CreatedAt fails to parse is ever received by
\* removeTweets (allowTweet returns false for it).
C12_UnparsableNeverSent ==
    \A c \in Cat : \A i \in 1..Len(received[c]) :
        ParseTime(received[c][i].CreatedAt)[2]

\* C13: the Posts window is -b if positive, else BacklogDays; the Likes
\* window is -l if positive, else BacklogDaysLikes, and the Posts window
\* when that is 0; each category's cutoff is now minus its window.
C13_EffectiveWindows ==
    mainpc # "Filter" =>
        LET posts == IF backlog > 0 THEN backlog ELSE cfg.BacklogDays
            own == IF likemax > 0 THEN likemax ELSE cfg.BacklogDaysLikes
            likes == IF own = 0 THEN posts ELSE own
        IN  /\ maxDate[Tweet] = Now - posts
            /\ maxDate[Like] = Now - likes

\* no -l and no BacklogDaysLikes: the Likes cutoff is that of a -b which
\* overrides BacklogDays
C13_Witness ==
    /\ mainpc = "Wait"
    /\ backlog > 0
    /\ likemax <= 0
    /\ cfg.BacklogDaysLikes = 0
    /\ cfg.BacklogDays > 0
    /\ cfg.BacklogDays # backlog
    /\ maxDate[Like] = Now - backlog

\* C14: no max_id is sent before the first non-empty page, and once a page
\* has been gone through the cursor is the least identifier of all pages
\* fetched so far, minus 1.
C14_CursorIsMinSeenMinusOne ==
    \A c \in Cat :
        /\ minSeen[c] = 0 => ~maxId[c].set /\ ~lastCall[c].max_id.set
        /\ (minSeen[c] > 0 /\ lpc[c] # "send") =>
              maxId[c].set /\ maxId[c].val = minSeen[c] - 1

\* C15: a loader error leaves the cursor, the running minimum and the items
\* emitted as they were; the call that follows a failed call carries the
\* failed call's max_id, and nothing is received in between.
C15_ErrorLeavesCursor ==
    [][\A c \in Cat :
          /\ consecErrs'[c] = consecErrs[c] + 1 =>
                /\ maxId'[c] = maxId[c]
                /\ minID'[c] = minID[c]
                /\ received'[c] = received[c]
                /\ passing'[c] = passing[c]
          /\ (lastCall[c].kind = "err" /\ lpc[c] = "fetch") =>
                /\ received'[c] = received[c]
                /\ lastCall'[c].max_id = lastCall[c].max_id
                /\ lastCall'[c] = lastCall[c] => maxId'[c] = maxId[c] /\ minID'[c] = minID[c]
      ]_vars

\* a call with a cursor has failed, after an item was delivered, and the
\* retry is due
C15_Witness ==
    \E c \in Cat :
        /\ lastCall[c].kind = "err"
        /\ lastCall[c].max_id.set
        /\ lpc[c] = "fetch"
        /\ received[c] # <<>>

\* C16: errorCount is the number of loader calls that failed in a row: 0
\* after a non-empty page, never above 3, and loadTweets leaves its loop
\* after an error only when the 3 latest calls all failed.
C16_CountsConsecutiveFailures ==
    \A c \in Cat :
        /\ errorCount[c] \in 0..maxErrorCount
        /\ lastCall[c].kind \in {"none", "page"} => errorCount[c] = 0
        /\ lastCall[c].kind = "err" => errorCount[c] = consecErrs[c]
        /\ (LeftLoop(c) /\ lastCall[c].kind = "err") => consecErrs[c] = maxErrorCount
        /\ (lastCall[c].kind = "err" /\ consecErrs[c] < maxErrorCount) => lpc[c] = "fetch"

\* two failures in a row after a successful page, and loadTweets goes on
C16_Witness ==
    \E c \in Cat :
        /\ lastCall[c].kind = "err"
        /\ errorCount[c] = 2
        /\ maxId[c].set
        /\ lpc[c] = "fetch"

\* C17: at most one item handed off by loadTweets is not yet completely
\* processed, and loadTweets is at a loader call only when every allowed
\* item of the pages fetched so far has been received.
C17_Backpressure ==
    \A c \in Cat :
        /\ Len(received[c]) - Len(logged[c]) \in {0, 1}
        /\ lpc[c] = "fetch" => received[c] = passing[c]

\* loadTweets is blocked in the send of the second item of a page while
\* removeTweets is busy with the first
C17_Witness ==
    \E c \in Cat :
        /\ lpc[c] = "send"
        /\ cpc[c] = "process"
        /\ Len(received[c]) = Len(logged[c]) + 1
        /\ Len(passing[c]) > Len(received[c])

\* C18: under fair scheduling every loadTweets eventually closes its stream
\* (the remote collection being finite and the loader ending in an empty
\* page or 3 failures in a row).
C18_EveryLoaderCloses ==
    \A c \in Cat : <>closed[c]

\* both streams are closed after items went through both of them
C18_Witness ==
    \A c \in Cat : closed[c] /\ received[c] # <<>>

\* C19: when latch.Wait() has returned, every item sent on a stream has been
\* processed to the end and no removeTweets is inside its loop body.
C19_NothingInFlightAtReturn ==
    mainpc = "Returned" =>
        \A c \in Cat :
            /\ cpc[c] # "process"
            /\ lpc[c] # "send"
            /\ logged[c] = received[c]
            /\ received[c] = passing[c]

\* Wait has returned after items of both categories were processed
C19_Witness ==
    mainpc = "Returned" /\ \A c \in Cat : logged[c] # <<>>

\* C20: the counter of latch is never negative, and it is not raised (no
\* Add) once latch.Wait() has returned.
C20_NoAddAfterWait ==
    [][latch' >= 0 /\ (mainpc = "Returned" => latch' <= latch)]_vars

====
